---- MODULE Spec2Model ----
(***************************************************************************)
(* Model of amethyst_assets/src/asset.rs: the shared asset future          *)
(* (AssetFuture, a newtype over futures::future::Shared), the asset        *)
(* identity key (AssetSpec) and the Context trait with its default method  *)
(* bodies.                                                                 *)
(*                                                                         *)
(* AssetFuture delegates to Shared (futures 0.1): `f.shared()` builds the  *)
(* shared cell without polling, `peek` loads the cell's state and clones   *)
(* the stored result when the state is COMPLETE, and `poll` takes the      *)
(* cell's IDLE -> POLLING lock by compare-and-swap, polls the boxed        *)
(* future, and either releases the lock or stores the result and the       *)
(* COMPLETE state.  A poll is therefore several atomic steps, and the      *)
(* model gives each handle a position (pc) inside it so that polls of      *)
(* different clones interleave.                                            *)
(***************************************************************************)
EXTENDS Integers, FiniteSets, Sequences, TLC

\* Bounds of the model.
MaxHandles == 2
MaxFut == 2

Handles == 1..MaxHandles
Futs == 1..MaxFut
Specs == {"S"}
Items == {6}
Errors == {1}

VARIABLES
    ctxKind,   \* which Context implementation is in use
    entries,   \* the context's cache: spec -> cached future (0: no entry)
    created,   \* per spec, the create_asset invocations (the counting stub)
    nextFut,   \* number of shared cells built so far by from_future
    shared,    \* per cell: state, result, wrapped future
    hcell,     \* per holder: the cell its AssetFuture points to (0: none)
    pc,        \* per holder: position in the request sequence / in poll
    req,       \* per holder: the spec it is requesting
    ret        \* the call the step just taken returned from (peek, poll, cache,
               \* clear, clear_all, drop) and what it returned

vars == <<ctxKind, entries, created, nextFut, shared, hcell, pc, req, ret>>

----------------------------------------------------------------------------
\* Values.

NoResult == [set |-> FALSE, ok |-> FALSE, v |-> 0]
Ok(v) == [set |-> TRUE, ok |-> TRUE, v |-> v]
Err(e) == [set |-> TRUE, ok |-> FALSE, v |-> e]
Outcomes == {Ok(v) : v \in Items} \cup {Err(e) : e \in Errors}

\* A boxed computation Box<Future<Item = A, Error = BoxedErr>>: whether the
\* worker has finished it, its outcome once it has, and how many times it
\* has been run to its outcome.
BoxFuture(done, out) ==
    [done |-> done, out |-> IF done THEN out ELSE NoResult, yields |-> 0]

NoFuture == BoxFuture(FALSE, NoResult)

NoCell == [state |-> "NONE", result |-> NoResult, future |-> NoFuture]

\* A from_future that polls once while wrapping: a finished computation
\* gives a cell that is complete from the start.
from_future_eager(f) ==
    IF f.done
    THEN [state |-> "COMPLETE", result |-> f.out, future |-> f]
    ELSE [state |-> "IDLE", result |-> NoResult, future |-> f]

\* AssetFuture::from_future: box the future and wrap it in a Shared.  The
\* cell starts IDLE with no result; nothing is polled.
from_future(f) ==
    [state |-> "IDLE", result |-> NoResult, future |-> f]

\* What a call returned: kind, the wrappers around the payload (outermost
\* first) and the payload.
Value(kind, wrap, v) == [kind |-> kind, wrap |-> wrap, v |-> v]

\* A peek that reads the outcome of a finished computation nobody polled.
peek_finished(cell) ==
    IF cell.state # "NONE" /\ cell.future.done
    THEN IF cell.future.out.ok
         THEN Value("SomeOk", <<"SharedItem">>, cell.future.out.v)
         ELSE Value("SomeErr", <<"SharedError">>, cell.future.out.v)
    ELSE Value("None", <<>>, 0)

\* Shared::peek as called by AssetFuture::peek: Some(clone of the result)
\* when the state is COMPLETE, None otherwise.
peek(cell) ==
    IF cell.state = "COMPLETE"
    THEN IF cell.result.ok
         THEN Value("SomeOk", <<"SharedItem">>, cell.result.v)
         ELSE Value("SomeErr", <<"SharedError">>, cell.result.v)
    ELSE Value("None", <<>>, 0)

\* Shared::poll's return values: NotReady, and the clone of the stored
\* result (Ready(SharedItem) or Err(SharedError)).
SharedNotReady == Value("NotReady", <<>>, 0)

SharedComplete(cell) ==
    IF cell.result.ok
    THEN Value("Ready", <<"SharedItem">>, cell.result.v)
    ELSE Value("Err", <<"SharedError">>, cell.result.v)

\* Mistaken matches: the error arm reporting NotReady, the ready arm handing
\* out the SharedItem instead of a clone of the asset, and the error arm
\* boxing the SharedError without the SharedAssetError around it.
poll_err_not_ready(r) ==
    IF r.kind = "Ready" THEN Value("Ready", Tail(r.wrap), r.v)
    ELSE Value("NotReady", <<>>, 0)

poll_no_deref(r) ==
    CASE r.kind = "NotReady" -> Value("NotReady", <<>>, 0)
      [] r.kind = "Ready" -> Value("Ready", r.wrap, r.v)
      [] r.kind = "Err" ->
           Value("Err", <<"BoxedErr", "SharedAssetError">> \o r.wrap, r.v)

poll_err_unwrapped(r) ==
    CASE r.kind = "NotReady" -> Value("NotReady", <<>>, 0)
      [] r.kind = "Ready" -> Value("Ready", Tail(r.wrap), r.v)
      [] r.kind = "Err" -> Value("Err", <<"BoxedErr">> \o r.wrap, r.v)

\* AssetFuture::poll's match on what Shared::poll returned: NotReady stays,
\* Ready(asset) becomes Ready((*asset).clone()), Err(err) becomes
\* Err(BoxedErr(Box::new(SharedAssetError::from(err)))).
poll(r) ==
    CASE r.kind = "NotReady" -> Value("NotReady", <<>>, 0)
      [] r.kind = "Ready" -> Value("Ready", Tail(r.wrap), r.v)
      [] r.kind = "Err" ->
           Value("Err", <<"BoxedErr", "SharedAssetError">> \o r.wrap, r.v)

\* The record of a return: op was called on a future of cell c and returned
\* val; drove tells whether this very call ran the boxed future to its
\* outcome.
Return(c, op, drove, val) == [c |-> c, op |-> op, drove |-> drove, val |-> val]

NoRet == Return(0, "none", FALSE, Value("None", <<>>, 0))

\* The return of a call that returns (): op was called, on cell c if it was
\* called on a future.
Unit(c, op) == Return(c, op, FALSE, Value("None", <<>>, 0))

\* A broken lock: the swap is done whatever the current state.
compare_and_swap_always(cur, old, new) == [prev |-> old, now |-> new]

\* AtomicUsize::compare_and_swap as Shared::poll uses it on the cell's
\* state: the previous value, and the value now stored.
compare_and_swap(cur, old, new) ==
    [prev |-> cur, now |-> IF cur = old THEN new ELSE cur]

\* A clone that wraps the computation anew instead of sharing the cell.
clone_unshared(c) == IF c = 0 THEN 0 ELSE (c % MaxFut) + 1

\* impl Clone for AssetFuture: the clone points to the same shared cell.
clone(c) == c

----------------------------------------------------------------------------
Init ==
    /\ ctxKind \in {"default", "caching"}
    /\ entries = [s \in Specs |-> 0]
    /\ created = [s \in Specs |-> 0]
    /\ nextFut = 0
    /\ shared = [c \in Futs |-> NoCell]
    /\ hcell = [h \in Handles |-> 0]
    /\ pc = [h \in Handles |-> "idle"]
    /\ req = [h \in Handles |-> CHOOSE s \in Specs : TRUE]
    /\ ret = NoRet

Holds(h) == hcell[h] # 0

\* A cache that keeps no ownership of what it stores: the cell is destroyed
\* with the last holder outside the cache.
ReleaseUnowned(sh, hc, ents) ==
    [c \in Futs |-> IF c \in {hc[h] : h \in Handles} THEN sh[c] ELSE NoCell]

\* Dropping the last AssetFuture of a cell (the last Arc) destroys the cell.
Release(sh, hc, ents) ==
    [c \in Futs |->
        IF c \in {hc[h] : h \in Handles} \cup {ents[s] : s \in Specs}
        THEN sh[c] ELSE NoCell]

----------------------------------------------------------------------------
\* AssetFuture operations.

\* A peek that forces the work: it takes a finished computation's outcome.
PeekForcing(h) ==
    /\ Holds(h) /\ pc[h] = "idle"
    /\ LET c == hcell[h]
           cell == IF shared[c].state = "IDLE" /\ shared[c].future.done
                   THEN [shared[c] EXCEPT !.state = "COMPLETE",
                                          !.result = shared[c].future.out,
                                          !.future.yields = @ + 1]
                   ELSE shared[c]
       IN /\ shared' = [shared EXCEPT ![c] = cell]
          /\ ret' = Return(c, "peek", FALSE, peek(cell))
    /\ UNCHANGED <<ctxKind, entries, created, nextFut, hcell, pc, req>>

\* AssetFuture::peek on holder h's future.
Peek(h) ==
    /\ Holds(h) /\ pc[h] = "idle"
    /\ ret' = Return(hcell[h], "peek", FALSE, peek(shared[hcell[h]]))
    /\ UNCHANGED <<ctxKind, entries, created, nextFut, shared, hcell, pc, req>>

\* AssetFuture::poll, first step: Shared::poll tries to take the cell's lock
\* with compare_and_swap(IDLE, POLLING).  On POLLING or REPOLL another clone
\* is polling and the call returns NotReady; on COMPLETE it returns the
\* stored result.
PollBegin(h) ==
    /\ Holds(h) /\ pc[h] = "idle"
    /\ LET c == hcell[h]
           cas == compare_and_swap(shared[c].state, "IDLE", "POLLING")
       IN CASE cas.prev = "IDLE" ->
                 /\ shared' = [shared EXCEPT ![c].state = cas.now]
                 /\ pc' = [pc EXCEPT ![h] = "locked"]
                 /\ ret' = NoRet
            [] cas.prev \in {"POLLING", "REPOLL"} ->
                 /\ ret' = Return(c, "poll", FALSE, poll(SharedNotReady))
                 /\ UNCHANGED <<shared, pc>>
            [] cas.prev = "COMPLETE" ->
                 /\ ret' = Return(c, "poll", FALSE, poll(SharedComplete(shared[c])))
                 /\ UNCHANGED <<shared, pc>>
            [] OTHER -> FALSE    \* unreachable!()
    /\ UNCHANGED <<ctxKind, entries, created, nextFut, hcell, req>>

\* The lock holder polls the boxed future.  A finished future yields its
\* outcome, which is written to the cell's result; an unfinished one
\* returns NotReady.
PollInner(h) ==
    /\ pc[h] = "locked"
    /\ LET c == hcell[h]
           f == shared[c].future
       IN IF f.done
          THEN /\ shared' = [shared EXCEPT ![c].future.yields = @ + 1,
                                           ![c].result = f.out]
               /\ pc' = [pc EXCEPT ![h] = "store"]
          ELSE /\ shared' = shared
               /\ pc' = [pc EXCEPT ![h] = "release"]
    /\ UNCHANGED <<ctxKind, entries, created, nextFut, hcell, req>>
    /\ ret' = NoRet

\* A poll that returns NotReady with the lock still taken.
PollReleaseKeepingLock(h) ==
    /\ pc[h] = "release"
    /\ ret' = Return(hcell[h], "poll", FALSE, poll(SharedNotReady))
    /\ pc' = [pc EXCEPT ![h] = "idle"]
    /\ UNCHANGED <<ctxKind, entries, created, nextFut, shared, hcell, req>>

\* After NotReady: compare_and_swap(POLLING, IDLE) releases the lock and the
\* poll returns NotReady; on REPOLL the state goes back to POLLING and the
\* boxed future is polled again.
PollRelease(h) ==
    /\ pc[h] = "release"
    /\ LET c == hcell[h]
           cas == compare_and_swap(shared[c].state, "POLLING", "IDLE")
       IN IF cas.prev = "POLLING"
          THEN /\ shared' = [shared EXCEPT ![c].state = cas.now]
               /\ ret' = Return(c, "poll", FALSE, poll(SharedNotReady))
               /\ pc' = [pc EXCEPT ![h] = "idle"]
          ELSE /\ shared' = [shared EXCEPT ![c].state = "POLLING"]
               /\ ret' = NoRet
               /\ pc' = [pc EXCEPT ![h] = "locked"]
    /\ UNCHANGED <<ctxKind, entries, created, nextFut, hcell, req>>

\* After a result: store COMPLETE and return the clone of the result.
PollStore(h) ==
    /\ pc[h] = "store"
    /\ LET c == hcell[h]
           cell == [shared[c] EXCEPT !.state = "COMPLETE"]
       IN /\ shared' = [shared EXCEPT ![c] = cell]
          /\ ret' = Return(c, "poll", TRUE, poll(SharedComplete(cell)))
    /\ pc' = [pc EXCEPT ![h] = "idle"]
    /\ UNCHANGED <<ctxKind, entries, created, nextFut, hcell, req>>

\* The worker pool finishes the computation behind cell c with outcome out
\* and notifies: Notifier::notify does compare_and_swap(POLLING, REPOLL).
Complete(c, out) ==
    /\ shared[c].state # "NONE"
    /\ ~shared[c].future.done
    /\ shared' = [shared EXCEPT
          ![c].future.done = TRUE,
          ![c].future.out = out,
          ![c].state = compare_and_swap(@, "POLLING", "REPOLL").now]
    /\ UNCHANGED <<ctxKind, entries, created, nextFut, hcell, pc, req>>
    /\ ret' = NoRet

\* impl Clone for AssetFuture: holder g takes a clone of holder h's future.
Clone(h, g) ==
    /\ Holds(h) /\ ~Holds(g) /\ pc[g] = "idle"
    /\ hcell' = [hcell EXCEPT ![g] = clone(hcell[h])]
    /\ UNCHANGED <<ctxKind, entries, created, nextFut, shared, pc, req>>
    /\ ret' = NoRet

\* Holder h drops its AssetFuture.
Drop(h) ==
    /\ Holds(h) /\ pc[h] = "idle"
    /\ hcell' = [hcell EXCEPT ![h] = 0]
    /\ shared' = Release(shared, hcell', entries)
    /\ UNCHANGED <<ctxKind, entries, created, nextFut, pc, req>>
    /\ ret' = Unit(hcell[h], "drop")

----------------------------------------------------------------------------
\* The Context trait.  `entries` maps a spec to the cell of the cached
\* AssetFuture, 0 meaning no entry.

\* A default cache that stores what it is given.
default_cache_storing(ents, s, f) == [ents EXCEPT ![s] = f]

\* Default body of Context::cache: `{}`.
default_cache(ents, s, f) == ents

\* Default body of Context::retrieve: `None`.
default_retrieve(ents, s) == 0

\* Default body of Context::clear: `{}`.
default_clear(ents, held) == ents

\* Default body of Context::clear_all: `{}`.
default_clear_all(ents) == ents

\* A context that overrides the cache methods with a map from spec to
\* future, as the contract of the trait describes it.
caching_cache(ents, s, f) == [ents EXCEPT ![s] = f]

caching_retrieve(ents, s) == IF ents[s] = 0 THEN 0 ELSE clone(ents[s])

caching_update(ents, s, f) == IF ents[s] = 0 THEN ents ELSE [ents EXCEPT ![s] = f]

\* clear drops the entries whose future has no owner outside the cache.
caching_clear(ents, held) ==
    [s \in Specs |-> IF ents[s] \in held THEN ents[s] ELSE 0]

caching_clear_all(ents) == [s \in Specs |-> 0]

\* Trait dispatch on the implementation in use.
cache(kind, ents, s, f) ==
    IF kind = "default" THEN default_cache(ents, s, f) ELSE caching_cache(ents, s, f)

retrieve(kind, ents, s) ==
    IF kind = "default" THEN default_retrieve(ents, s) ELSE caching_retrieve(ents, s)

\* Context::update has no default body; an implementation that does not
\* cache has no entry to replace.
update(kind, ents, s, f) ==
    IF kind = "default" THEN ents ELSE caching_update(ents, s, f)

\* Mistaken evictions: a clear that drops the held entries too, and a
\* clear_all that spares them.
clear_everything(kind, ents, held) ==
    IF kind = "default" THEN ents ELSE [s \in Specs |-> 0]

clear_all_sparing(kind, ents) ==
    IF kind = "default" THEN ents
    ELSE [s \in Specs |-> IF ents[s] \in {hcell[h] : h \in Handles} THEN ents[s] ELSE 0]

clear(kind, ents, held) ==
    IF kind = "default" THEN default_clear(ents, held) ELSE caching_clear(ents, held)

clear_all(kind, ents) ==
    IF kind = "default" THEN default_clear_all(ents) ELSE caching_clear_all(ents)

\* The cells some holder's AssetFuture points to.
Held == {hcell[h] : h \in Handles} \ {0}

\* A retrieve that loads on a miss: it builds the asset and registers it.
RetrieveConstructing(h, s) ==
    /\ ~Holds(h) /\ pc[h] = "idle"
    /\ LET r == retrieve(ctxKind, entries, s)
       IN IF r = 0
          THEN /\ nextFut < MaxFut
               /\ nextFut' = nextFut + 1
               /\ created' = [created EXCEPT ![s] = @ + 1]
               /\ shared' = [shared EXCEPT
                     ![nextFut + 1] = from_future(BoxFuture(FALSE, NoResult))]
               /\ entries' = cache(ctxKind, entries, s, nextFut + 1)
               /\ hcell' = [hcell EXCEPT ![h] = nextFut + 1]
          ELSE /\ hcell' = [hcell EXCEPT ![h] = r]
               /\ UNCHANGED <<entries, created, nextFut, shared>>
    /\ UNCHANGED <<ctxKind, pc, req>>
    /\ ret' = NoRet

\* A caller without a future asks the context for spec s.  A hit hands it
\* the cached future; on a miss it goes on to build the asset.
Retrieve(h, s) ==
    /\ ~Holds(h) /\ pc[h] = "idle"
    /\ LET r == retrieve(ctxKind, entries, s)
       IN IF r = 0
          THEN /\ pc' = [pc EXCEPT ![h] = "miss"]
               /\ req' = [req EXCEPT ![h] = s]
               /\ hcell' = hcell
          ELSE /\ hcell' = [hcell EXCEPT ![h] = r]
               /\ UNCHANGED <<pc, req>>
    /\ UNCHANGED <<ctxKind, entries, created, nextFut, shared>>
    /\ ret' = NoRet

\* The format and the context of the round trip: parse makes the bytes a
\* mesh of three vertices, create_asset doubles the vertex count.
parse(bytes) == [vertices |-> 3]

create_asset(data) == [vertices |-> 2 * data.vertices]

RoundTrip == Ok(create_asset(parse(<<>>)).vertices)

\* After a miss: Context::create_asset is invoked and its result wrapped by
\* AssetFuture::from_future.  The computation may already be finished
\* (a plain Result, with outcome `out`) or still running on the pool.
CreateAsset(h, out, done) ==
    /\ pc[h] = "miss"
    /\ nextFut < MaxFut
    /\ nextFut' = nextFut + 1
    /\ created' = [created EXCEPT ![req[h]] = @ + 1]
    /\ shared' = [shared EXCEPT ![nextFut + 1] = from_future(BoxFuture(done, out))]
    /\ hcell' = [hcell EXCEPT ![h] = nextFut + 1]
    /\ pc' = [pc EXCEPT ![h] = "idle"]
    /\ UNCHANGED <<ctxKind, entries, req>>
    /\ ret' = NoRet

\* Context::cache(s, clone of h's future).  A caller that has just built the
\* asset registers it for the spec it requested; any holder may register
\* its future again.
Cache(h, s) ==
    /\ Holds(h) /\ pc[h] \in {"idle", "created"}
    /\ pc[h] = "created" => s = req[h]
    /\ entries' = cache(ctxKind, entries, s, clone(hcell[h]))
    /\ shared' = Release(shared, hcell, entries')
    /\ pc' = [pc EXCEPT ![h] = "idle"]
    /\ UNCHANGED <<ctxKind, created, nextFut, hcell, req>>
    /\ ret' = Unit(0, "cache")

\* Context::update(s, clone of h's future): a reload hands over a future.
Update(h, s) ==
    /\ Holds(h) /\ pc[h] = "idle"
    /\ entries' = update(ctxKind, entries, s, clone(hcell[h]))
    /\ shared' = Release(shared, hcell, entries')
    /\ UNCHANGED <<ctxKind, created, nextFut, hcell, pc, req>>
    /\ ret' = NoRet

\* Context::clear.
Clear ==
    /\ entries' = clear(ctxKind, entries, Held)
    /\ shared' = Release(shared, hcell, entries')
    /\ UNCHANGED <<ctxKind, created, nextFut, hcell, pc, req>>
    /\ ret' = Unit(0, "clear")

\* Context::clear_all.
ClearAll ==
    /\ entries' = clear_all(ctxKind, entries)
    /\ shared' = Release(shared, hcell, entries')
    /\ UNCHANGED <<ctxKind, created, nextFut, hcell, pc, req>>
    /\ ret' = Unit(0, "clear_all")

----------------------------------------------------------------------------
Next ==
    \/ \E h \in Handles : Peek(h)
    \/ \E h \in Handles : PollBegin(h)
    \/ \E h \in Handles : PollInner(h)
    \/ \E h \in Handles : PollRelease(h)
    \/ \E h \in Handles : PollStore(h)
    \/ \E c \in Futs, out \in Outcomes : Complete(c, out)
    \/ \E h, g \in Handles : Clone(h, g)
    \/ \E h \in Handles : Drop(h)
    \/ \E h \in Handles, s \in Specs : Retrieve(h, s)
    \/ \E h \in Handles, out \in Outcomes, done \in BOOLEAN : CreateAsset(h, out, done)
    \/ \E h \in Handles, s \in Specs : Cache(h, s)
    \/ \E h \in Handles, s \in Specs : Update(h, s)
    \/ Clear
    \/ ClearAll

Spec == Init /\ [][Next]_vars

\* Callers requesting assets from a context that caches, with nothing
\* invalidating or replacing entries behind their back: each caller
\* retrieves, on a miss creates the asset and caches it, and then polls
\* and peeks its future.
InitRequest == Init /\ ctxKind = "caching"

NextRequest ==
    \/ \E h \in Handles, s \in Specs : Retrieve(h, s)
    \/ \E h \in Handles, out \in Outcomes, done \in BOOLEAN : CreateAsset(h, out, done)
    \/ \E h \in Handles : Cache(h, req[h])
    \/ \E h \in Handles : Peek(h)
    \/ \E h \in Handles : PollBegin(h)
    \/ \E h \in Handles : PollInner(h)
    \/ \E h \in Handles : PollRelease(h)
    \/ \E h \in Handles : PollStore(h)
    \/ \E c \in Futs, out \in Outcomes : Complete(c, out)

SpecRequest == InitRequest /\ [][NextRequest]_vars

\* Callers that get their futures from the context only: every operation
\* but the hand-over of a clone from one caller to another, so that two
\* callers on one cell have it from the cache.
NextContext ==
    \/ \E h \in Handles, s \in Specs : Retrieve(h, s)
    \/ \E h \in Handles, out \in Outcomes, done \in BOOLEAN : CreateAsset(h, out, done)
    \/ \E h \in Handles, s \in Specs : Cache(h, s)
    \/ \E h \in Handles, s \in Specs : Update(h, s)
    \/ Clear
    \/ ClearAll
    \/ \E h \in Handles : Drop(h)
    \/ \E h \in Handles : Peek(h)
    \/ \E h \in Handles : PollBegin(h)
    \/ \E h \in Handles : PollInner(h)
    \/ \E h \in Handles : PollRelease(h)
    \/ \E h \in Handles : PollStore(h)
    \/ \E c \in Futs, out \in Outcomes : Complete(c, out)

SpecContext == Init /\ [][NextContext]_vars

\* Clones of futures that are polled until they resolve, outside any cache
\* (the default context): a clone is dropped only when a poll of its
\* future has just returned NotReady.
InitProgress == Init /\ ctxKind = "default"

Poll(h) == PollBegin(h) \/ PollInner(h) \/ PollRelease(h) \/ PollStore(h)

NextProgress ==
    \/ \E h \in Handles, s \in Specs : Retrieve(h, s)
    \/ \E h \in Handles, out \in Outcomes, done \in BOOLEAN : CreateAsset(h, out, done)
    \/ \E h, g \in Handles : Clone(h, g)
    \/ \E h \in Handles :
          ret = Return(hcell[h], "poll", FALSE, poll(SharedNotReady)) /\ Drop(h)
    \/ \E h \in Handles : Peek(h)
    \/ \E h \in Handles : Poll(h)
    \/ \E c \in Futs, out \in Outcomes : Complete(c, out)

\* Every clone that is held keeps being polled, a poll that has begun runs
\* to its return, and the worker pool finishes every computation.
FairProgress ==
    /\ \A h \in Handles : WF_vars(Poll(h))
    /\ \A c \in Futs : WF_vars(\E out \in Outcomes : Complete(c, out))

SpecProgress == InitProgress /\ [][NextProgress]_vars /\ FairProgress

----------------------------------------------------------------------------
\* AssetSpec and its derived Clone, Eq, Hash, Ord, PartialEq, PartialOrd.
\* A string is the sequence of its bytes; exts is a sequence of strings.

\* AssetSpec::new(name, exts, store).
new(name, exts, store) == [exts |-> exts, name |-> name, store |-> store]

ExtLists == {<<>>, << <<1>> >>, << <<1>>, <<2>> >>, << <<2>>, <<1>> >>}
Names == {<<1>>, <<1, 2>>}
Stores == {0, 1}
AssetSpecs == {new(n, e, st) : n \in Names, e \in ExtLists, st \in Stores}

\* Ordering of two integers (bytes, lengths, store ids): Less, Equal, Greater
\* as -1, 0, 1.
int_cmp(x, y) == IF x < y THEN -1 ELSE IF x = y THEN 0 ELSE 1

\* Ord of strings: the first byte that differs decides, and a proper
\* prefix is less.
str_cmp(x, y) ==
    LET n == IF Len(x) < Len(y) THEN Len(x) ELSE Len(y)
        D == {i \in 1..n : x[i] # y[i]}
    IN IF D # {}
       THEN LET i == CHOOSE j \in D : \A k \in D : j <= k
            IN int_cmp(x[i], y[i])
       ELSE int_cmp(Len(x), Len(y))

\* Ord of slices of strings: the first element that differs decides, and a
\* proper prefix is less.
exts_cmp(x, y) ==
    LET n == IF Len(x) < Len(y) THEN Len(x) ELSE Len(y)
        D == {i \in 1..n : str_cmp(x[i], y[i]) # 0}
    IN IF D # {}
       THEN LET i == CHOOSE j \in D : \A k \in D : j <= k
            IN str_cmp(x[i], y[i])
       ELSE int_cmp(Len(x), Len(y))

\* PartialEq of slices and strings: same length and equal element by element.
str_eq(x, y) == Len(x) = Len(y) /\ \A i \in 1..Len(x) : x[i] = y[i]

exts_eq(x, y) == Len(x) = Len(y) /\ \A i \in 1..Len(x) : str_eq(x[i], y[i])

\* A comparison that leaves the store out.
eq_without_store(a, b) == exts_eq(a.exts, b.exts) /\ str_eq(a.name, b.name)

\* #[derive(PartialEq, Eq)]: every field equal.
eq(a, b) ==
    /\ exts_eq(a.exts, b.exts)
    /\ str_eq(a.name, b.name)
    /\ a.store = b.store

\* #[derive(PartialOrd, Ord)]: the fields compared in the order of their
\* declaration, exts, name, store; the first that differs decides.
cmp(a, b) ==
    LET e == exts_cmp(a.exts, b.exts)
        n == str_cmp(a.name, b.name)
    IN IF e # 0 THEN e ELSE IF n # 0 THEN n ELSE int_cmp(a.store, b.store)

\* What #[derive(Hash)] feeds the hasher: the length of exts, every
\* extension's bytes closed by 0xff, the name's bytes closed by 0xff, the
\* store id.
str_feed(x) == x \o <<255>>

RECURSIVE exts_feed(_)
exts_feed(x) == IF x = <<>> THEN <<>> ELSE str_feed(Head(x)) \o exts_feed(Tail(x))

hash_feed(a) == <<Len(a.exts)>> \o exts_feed(a.exts) \o str_feed(a.name) \o <<a.store>>

\* The hasher: a multiplicative hash over the bytes fed, kept to 16 bits.
RECURSIVE finish(_, _)
finish(h, feed) ==
    IF feed = <<>> THEN h ELSE finish((h * 31 + Head(feed)) % 65536, Tail(feed))

hash(a) == finish(7, hash_feed(a))

\* The calls on the specs two callers request: ==, cmp and hash.
Eq(h, g) ==
    /\ ret' = Return(0, "eq", FALSE,
                     Value("bool", <<>>, IF eq(req[h], req[g]) THEN 1 ELSE 0))
    /\ UNCHANGED <<ctxKind, entries, created, nextFut, shared, hcell, pc, req>>

Cmp(h, g) ==
    /\ ret' = Return(0, "cmp", FALSE, Value("Ordering", <<>>, cmp(req[h], req[g])))
    /\ UNCHANGED <<ctxKind, entries, created, nextFut, shared, hcell, pc, req>>

Hash(h) ==
    /\ ret' = Return(0, "hash", FALSE, Value("u64", <<>>, hash(req[h])))
    /\ UNCHANGED <<ctxKind, entries, created, nextFut, shared, hcell, pc, req>>

\* Callers comparing and hashing the specs they request, the specs drawn
\* from AssetSpecs.
InitEq ==
    /\ ctxKind = "default"
    /\ entries = [s \in Specs |-> 0]
    /\ created = [s \in Specs |-> 0]
    /\ nextFut = 0
    /\ shared = [c \in Futs |-> NoCell]
    /\ hcell = [h \in Handles |-> 0]
    /\ pc = [h \in Handles |-> "idle"]
    /\ req \in [Handles -> AssetSpecs]
    /\ ret = NoRet

NextEq ==
    \/ \E h, g \in Handles : Eq(h, g)
    \/ \E h, g \in Handles : Cmp(h, g)
    \/ \E h \in Handles : Hash(h)

SpecEq == InitEq /\ [][NextEq]_vars

----------------------------------------------------------------------------
\* Properties.

Pending(c) == shared[c].state \in {"IDLE", "POLLING", "REPOLL"}
Failed(c) == shared[c].state = "COMPLETE" /\ ~shared[c].result.ok
Succeeded(c) == shared[c].state = "COMPLETE" /\ shared[c].result.ok
Holders(c) == {h \in Handles : hcell[h] = c}

\* C1: however the polls of a future's clones interleave, the wrapped
\* computation is run to its outcome at most once.
C1_ExecutedAtMostOnce == \A c \in Futs : shared[c].future.yields <= 1

\* C1 witness: the computation has run, the cell has two holders, and a
\* clone that did not run it has just polled the outcome out of the cell.
C1_Witness ==
    \E c \in Futs :
        /\ shared[c].future.yields = 1
        /\ Cardinality(Holders(c)) >= 2
        /\ ret.c = c /\ ret.op = "poll" /\ ~ret.drove
        /\ ret.val.kind \in {"Ready", "Err"}

\* C2: a peek on a pending future returns None and changes nothing of the
\* shared cells; a cell leaves pending only in the step in which a poll
\* that ran the computation returns.
C2_PeekDoesNotAdvance ==
    [][/\ \A h \in Handles :
            (Peek(h) /\ Pending(hcell[h])) =>
                (ret'.val = Value("None", <<>>, 0) /\ shared' = shared)
       /\ \A c \in Futs :
            (Pending(c) /\ ~Pending(c)') =>
                \/ (ret'.op = "poll" /\ ret'.c = c /\ ret'.drove
                      /\ shared'[c].state = "COMPLETE")
                \/ shared'[c] = NoCell]_vars

\* C2 witness: the worker has finished the computation, nobody has polled,
\* and a peek has just returned None.
C2_Witness ==
    /\ ret.op = "peek" /\ ret.val.kind = "None"
    /\ shared[ret.c].state = "IDLE"
    /\ shared[ret.c].future.done
    /\ shared[ret.c].future.yields = 0

\* C3: once a future is registered for a spec, a retrieve of that spec hands
\* the caller a future on the very cell the cache holds, and leaves the
\* entry as it is.
C3_RetrieveSameFuture ==
    [][\A h \in Handles, s \in Specs :
          (Retrieve(h, s) /\ entries[s] # 0) =>
              /\ hcell'[h] = entries[s]
              /\ pc'[h] = "idle"
              /\ entries' = entries
              /\ shared' = shared]_vars

\* C3 witness: one construction was cached and every caller holds a future
\* on the cached cell.
C3_Witness ==
    \E s \in Specs :
        /\ entries[s] # 0
        /\ created[s] = 1
        /\ \A h \in Handles : hcell[h] = entries[s]

\* C4: callers requesting one spec against an empty cache cause exactly one
\* create_asset invocation and end up on one future.
C4_OneCreateAsset ==
    /\ \A s \in Specs : created[s] <= 1
    /\ \A h, g \in Handles : (Holds(h) /\ Holds(g)) => hcell[h] = hcell[g]

C6_ClonesSeeSameValue ==
    \A c \in Futs :
        (Succeeded(c) /\ ret.c = c) =>
            /\ ret.op = "peek" =>
                  ret.val = Value("SomeOk", <<"SharedItem">>, shared[c].future.out.v)
            /\ ret.op = "poll" =>
                  ret.val = Value("Ready", <<>>, shared[c].future.out.v)

\* C6 witness: two holders share a resolved cell and the one that did not
\* run the computation has just polled the value.
C6_Witness ==
    \E c \in Futs :
        /\ Succeeded(c)
        /\ Cardinality(Holders(c)) >= 2
        /\ ret.c = c /\ ret.op = "poll" /\ ~ret.drove /\ ret.val.kind = "Ready"

\* C7 as stated: the error a poll returns to the clone that ran the failed
\* computation differs from the one a clone that only observes gets.
C7_ErrorTellsDriver ==
    (ret.op = "poll" /\ ret.val.kind = "Err" /\ ret.drove) =>
        ret.val # poll(SharedComplete(shared[ret.c]))

\* C7 amended: the error a poll returns on a failed future is
\* BoxedErr(SharedAssetError(SharedError(e))) for every clone, the one that
\* ran the computation included.
C7_ErrorSameForAll ==
    (ret.op = "poll" /\ ret.val.kind = "Err") =>
        ret.val = Value("Err", <<"BoxedErr", "SharedAssetError", "SharedError">>,
                        shared[ret.c].future.out.v)

\* C7 witness: the poll that ran the computation to its failure has just
\* returned the error.
C7_Witness == ret.op = "poll" /\ ret.val.kind = "Err" /\ ret.drove

\* C8: while a failed future is cached for a spec, and unless the step is a
\* clear, clear_all or update of that spec, the entry stays, a retrieve
\* returns it, and create_asset is not invoked for the spec.
C8_FailedEntryStays ==
    [][\A s \in Specs :
          (/\ entries[s] # 0
           /\ Failed(entries[s])
           /\ ~Clear /\ ~ClearAll
           /\ ~\E h \in Handles : Update(h, s)) =>
              /\ entries'[s] = entries[s]
              /\ created'[s] = created[s]
              /\ \A h \in Handles : Retrieve(h, s) => hcell'[h] = entries[s]]_vars

C10_LastCacheWins ==
    [][\A h \in Handles, s \in Specs :
          Cache(h, s) => retrieve(ctxKind, entries', s) = hcell[h]]_vars

\* C10 amended: caching the same pair again changes nothing; in a context
\* that stores what cache is given, retrieve then returns the future of the
\* latest cache call, and with the default bodies it returns None.
C10_CacheLastWriter ==
    [][\A h \in Handles, s \in Specs :
          Cache(h, s) =>
              /\ cache(ctxKind, entries', s, hcell[h]) = entries'
              /\ ctxKind = "caching" => retrieve(ctxKind, entries', s) = hcell[h]
              /\ ctxKind = "default" => retrieve(ctxKind, entries', s) = 0]_vars

\* C10 witness: two constructions of one spec were made, their futures are
\* held by two holders, and the entry is the later one.
C10_Witness ==
    \E s \in Specs, h, g \in Handles :
        /\ ctxKind = "caching"
        /\ created[s] = 2
        /\ Holds(h) /\ Holds(g) /\ hcell[h] < hcell[g]
        /\ entries[s] = hcell[g]

C12_ClearAllDropsAll ==
    [][/\ ClearAll =>
            /\ \A s \in Specs :
                  entries'[s] = 0 /\ retrieve(ctxKind, entries', s) = 0
            /\ hcell' = hcell
            /\ \A h \in Handles : Holds(h) => shared'[hcell[h]] = shared[hcell[h]]
       /\ \A s \in Specs :
            (entries[s] = 0 /\ ~\E h \in Handles : Cache(h, s)) =>
                /\ entries'[s] = 0
                /\ \A h \in Handles : Retrieve(h, s) => ~Holds(h)']_vars

\* C12 witness: clear_all has just returned, the cache is empty, and two
\* callers still hold the future they had from the cache.
C12_Witness ==
    /\ ctxKind = "caching"
    /\ ret.op = "clear_all"
    /\ \A s \in Specs : entries[s] = 0
    /\ \E c \in Futs : Cardinality(Holders(c)) >= 2

\* C13: clear leaves every entry whose future is held outside the cache as
\* it is, with its cell, and a retrieve of the spec still returns that
\* future; the entries it removes are held by nobody.
C13_ClearKeepsHeld ==
    [][Clear =>
          \A s \in Specs :
              /\ (entries[s] # 0 /\ entries[s] \in Held) =>
                    /\ entries'[s] = entries[s]
                    /\ retrieve(ctxKind, entries', s) = entries[s]
                    /\ shared'[entries[s]] = shared[entries[s]]
              /\ entries'[s] # entries[s] =>
                    (entries'[s] = 0 /\ entries[s] \notin Held)]_vars

\* C13 witness: clear has just returned and the entry of a future that a
\* caller holds is still there.
C13_Witness ==
    \E s \in Specs :
        /\ ret.op = "clear"
        /\ entries[s] # 0
        /\ entries[s] \in Held

\* C14: two specs are equal exactly when exts, name and store are equal,
\* equal specs have the same hash, specs that differ in one field are
\* unequal, and cmp is a total order that says Equal exactly for equal
\* specs.
C14_SpecEquality ==
    \A h, g \in Handles :
        LET a == req[h]
            b == req[g]
        IN /\ eq(a, b) <=> (a.exts = b.exts /\ a.name = b.name /\ a.store = b.store)
           /\ eq(a, b) => hash(a) = hash(b)
           /\ \A c \in AssetSpecs :
                 /\ ~eq(a, [a EXCEPT !.exts = c.exts]) <=> a.exts # c.exts
                 /\ ~eq(a, [a EXCEPT !.name = c.name]) <=> a.name # c.name
                 /\ ~eq(a, [a EXCEPT !.store = c.store]) <=> a.store # c.store
                 /\ (cmp(a, b) <= 0 /\ cmp(b, c) <= 0) => cmp(a, c) <= 0
           /\ cmp(a, b) \in {-1, 0, 1}
           /\ cmp(a, b) = -cmp(b, a)
           /\ cmp(a, b) = 0 <=> eq(a, b)
           /\ ret.op = "eq" => ret.val.v \in {0, 1}

\* C14 witness: two callers request specs that differ in the store only,
\* and == on two requested specs has just returned false.
C14_Witness ==
    /\ ret.op = "eq" /\ ret.val.v = 0
    /\ \E h, g \in Handles :
          /\ req[h].exts = req[g].exts
          /\ req[h].name = req[g].name
          /\ req[h].store # req[g].store
    /\ \A h, g \in Handles :
          h # g => (req[h].exts = req[g].exts /\ req[h].name = req[g].name)

\* C15 as stated: once the future of the round trip is cached, the
\* computation being finished, retrieve(spec).peek() is Some(Ok(Asset{6})).
C15_RoundTripPeek ==
    [][\A h \in Handles, s \in Specs :
          (/\ Cache(h, s)
           /\ ctxKind = "caching"
           /\ shared[hcell[h]].future.done
           /\ shared[hcell[h]].future.out = RoundTrip) =>
              peek(shared'[retrieve(ctxKind, entries', s)])
                  = Value("SomeOk", <<"SharedItem">>, 6)]_vars

\* C15 amended: the future cached for the round trip peeks None until a
\* poll has run the computation and stored its outcome, and
\* Some(Ok(Asset{6})) from then on.
C15_RoundTripAfterPoll ==
    /\ RoundTrip = Ok(6)
    /\ \A s \in Specs :
          LET c == retrieve(ctxKind, entries, s)
          IN (c # 0 /\ shared[c].future.done /\ shared[c].future.out = RoundTrip) =>
                /\ shared[c].state = "COMPLETE" =>
                      /\ shared[c].future.yields = 1
                      /\ peek(shared[c]) = Value("SomeOk", <<"SharedItem">>, 6)
                /\ shared[c].state # "COMPLETE" =>
                      peek(shared[c]) = Value("None", <<>>, 0)
                /\ (ret.op = "peek" /\ ret.c = c) => ret.val = peek(shared[c])

\* C15 witness: two callers hold the cached future of the round trip, it
\* has been polled to its outcome, and a peek has just returned
\* Some(Ok(Asset{6})).
C15_Witness ==
    \E s \in Specs :
        /\ entries[s] # 0
        /\ shared[entries[s]].future.out = RoundTrip
        /\ Cardinality(Holders(entries[s])) >= 2
        /\ ret = Return(entries[s], "peek", FALSE, Value("SomeOk", <<"SharedItem">>, 6))

\* C16 as stated: from_future of a computation that is already resolved
\* gives a future whose peek is Some without any poll.
C16_ReadyAtOnce ==
    [][\A h \in Handles, out \in Outcomes :
          CreateAsset(h, out, TRUE) => peek(shared'[hcell'[h]]).kind # "None"]_vars

\* C16 amended: a future starts pending whether or not the computation it
\* wraps is resolved: as long as no poll has run the computation, the cell
\* is not complete, holds no result, and a peek returns None.
C16_StartsPending ==
    \A c \in Futs :
        (shared[c].state # "NONE" /\ shared[c].future.yields = 0) =>
            /\ shared[c].state \in {"IDLE", "POLLING", "REPOLL"}
            /\ shared[c].result = NoResult
            /\ peek(shared[c]) = Value("None", <<>>, 0)
            /\ (ret.op = "peek" /\ ret.c = c) => ret.val = Value("None", <<>>, 0)

\* C16 witness: the only holder of a future that is in no cache and that
\* nobody has polled has just peeked None, the computation being resolved.
C16_Witness ==
    \E h \in Handles :
        /\ Holds(h)
        /\ Holders(hcell[h]) = {h}
        /\ \A s \in Specs : entries[s] # hcell[h]
        /\ shared[hcell[h]].future.done
        /\ shared[hcell[h]].state = "IDLE"
        /\ ret = Return(hcell[h], "peek", FALSE, Value("None", <<>>, 0))

\* C17: a retrieve builds nothing and leaves the cache as it is: the count
\* of create_asset invocations, the cells and the entries are the same
\* after it, and for a spec without an entry it returns nothing.
C17_RetrieveFrame ==
    [][\A h \in Handles, s \in Specs :
          Retrieve(h, s) =>
              /\ created' = created
              /\ nextFut' = nextFut
              /\ entries' = entries
              /\ shared' = shared
              /\ entries[s] = 0 => ~Holds(h)']_vars

\* C17 witness: a caller's retrieve has returned nothing, and nothing has
\* been built or cached.
C17_Witness ==
    \E h \in Handles :
        /\ pc[h] = "miss"
        /\ ~Holds(h)
        /\ nextFut = 0
        /\ \A s \in Specs : created[s] = 0 /\ entries[s] = 0

\* C18: with the default bodies of cache, retrieve, clear and clear_all the
\* context never holds an entry and retrieve returns None for every spec,
\* whatever calls were made; cache, clear and clear_all change nothing of
\* the context.
C18_DefaultNoCaching ==
    ctxKind = "default" =>
        \A s \in Specs :
            /\ entries[s] = 0
            /\ retrieve(ctxKind, entries, s) = 0
            /\ \A f \in Futs : cache(ctxKind, entries, s, f) = entries
            /\ clear(ctxKind, entries, Held) = entries
            /\ clear_all(ctxKind, entries) = entries

\* C18 witness: with the default bodies a caller that holds a future has
\* just called cache, the spec has been built twice because retrieve kept
\* returning None, and retrieve still returns None.
C18_Witness ==
    \E s \in Specs :
        /\ ctxKind = "default"
        /\ ret.op = "cache"
        /\ Held # {}
        /\ created[s] = 2
        /\ retrieve(ctxKind, entries, s) = 0

\* C19: a resolved future stays as it is: a complete cell does not change
\* while a clone or the cache holds it, so it never goes back to pending
\* and its result is never replaced; a peek that returns Some does so on a
\* complete cell, and every peek on a complete cell returns its result.
C19_ResolvedIsStable ==
    [][/\ (ret.op = "peek" /\ ret.val.kind # "None") =>
            shared[ret.c].state = "COMPLETE"
       /\ \A c \in Futs :
            shared[c].state = "COMPLETE" =>
                /\ shared'[c] \in {shared[c], NoCell}
                /\ shared'[c] = NoCell =>
                      /\ \A h \in Handles : hcell'[h] # c
                      /\ \A s \in Specs : entries'[s] # c
                /\ (ret'.op = "peek" /\ ret'.c = c) =>
                      /\ ret'.val = peek(shared[c])
                      /\ ret'.val.kind = IF shared[c].result.ok
                                         THEN "SomeOk" ELSE "SomeErr"
                      /\ ret'.val.v = shared[c].future.out.v]_vars

\* C19 witness: a peek on a resolved future held by two clones has just
\* returned Some, the clones being idle after the poll that resolved it.
C19_Witness ==
    \E c \in Futs :
        /\ shared[c].state = "COMPLETE"
        /\ Cardinality(Holders(c)) >= 2
        /\ \A h \in Holders(c) : pc[h] = "idle"
        /\ ret.op = "peek" /\ ret.c = c
        /\ ret.val.kind \in {"SomeOk", "SomeErr"}

\* C20: after a clone of a future is dropped, a poll of the pending
\* computation having returned NotReady, the clones that remain come to a
\* state where the future is resolved, a poll has returned its result and
\* a peek returns Some, unless they are all dropped too.
C20_ProgressAfterDrop ==
    \A c \in Futs :
        (ret.op = "drop" /\ ret.c = c /\ Holders(c) # {})
            ~> \/ Holders(c) = {}
               \/ /\ shared[c].state = "COMPLETE"
                  /\ peek(shared[c]).kind # "None"
                  /\ ret = Return(c, "poll", TRUE, poll(SharedComplete(shared[c])))

\* C20 witness: a clone has just been dropped from a pending future right
\* after its poll returned NotReady (the clones that remain are all inside
\* a poll, so the poll that returned was the dropped clone's), and a clone
\* remains.
C20_Witness ==
    \E c \in Futs :
        /\ ret.op = "drop" /\ ret.c = c
        /\ Pending(c)
        /\ Holders(c) # {}
        /\ \A g \in Holders(c) : pc[g] # "idle"
====
